---------------------------- MODULE Spec2Model ----------------------------
(***************************************************************************)
(* Model of OrdersService (src/main.py): the loader load_data_from_file,   *)
(* stepped statement group by statement group, against a relational store  *)
(* of four tables, and the reporting query get_orders_in_time_range.       *)
(*                                                                         *)
(* The store holds the COMMITTED rows.  Every step of the loader runs one  *)
(* transaction to its commit or rollback, so pending session state never   *)
(* outlives an action.  A store rejection (SQLAlchemyError) is an input of *)
(* the environment, drawn at each place where the code sends a write:      *)
(*   - the User is flushed by the autoflush of the query __add_to_session  *)
(*     runs for the Order (line 143), outside any try block;               *)
(*   - the Order, and each Product, is flushed by session.commit() inside  *)
(*     __try_commit (lines 144, 162), which rolls back and reports;        *)
(*   - the association rows are sent by session.execute (line 174),        *)
(*     outside any try block, and committed inside __try_commit (177).     *)
(* The store enforces the primary and foreign keys the tables declare.     *)
(* An exception nobody catches ends the load: pc = "crashed".              *)
(***************************************************************************)
EXTENDS Integers, Sequences, FiniteSets, TLC

(* ------------------------------ bounds --------------------------------- *)
MaxLines == 2
MaxProducts == 3
MaxLoads == 2
MaxRejects == 1
MaxEpoch == 2
MaxTop == 2

(* ------------------------------ inputs --------------------------------- *)
OrderIds == {1, 2}
UserIds == {1, 2}
ProductIds == {1, 2}
Epochs == 1..MaxEpoch
UserNames == {"Ann", "Bob"}
Cities == {"Brno", "Praha"}

SeqsUpTo(S, n) == UNION {[1..k -> S] : k \in 0..n}

Without(r, f) == [k \in (DOMAIN r) \ {f} |-> r[k]]

JsonLine(d) == [json |-> TRUE, data |-> d]

Malformed == [json |-> FALSE, data |-> <<>>]

OrderRecord(o, c, u, ps) == [id |-> o, created |-> c, user |-> u, products |-> ps]

UserObj(i, n, c) == [id |-> i, name |-> n, city |-> c]

ProductObj(i, n, p) == [id |-> i, name |-> n, price |-> p]

BaseUser == UserObj(1, "Ann", "Brno")

BaseProduct(i) == IF i = 1 THEN ProductObj(1, "Pen", 15) ELSE ProductObj(i, "Ink", 40)

BaseRecord == OrderRecord(1, 1, BaseUser, <<BaseProduct(1), BaseProduct(2)>>)

\* lines that vary the products array of an order (ids, repetitions, order)
AssocLines ==
  {JsonLine(OrderRecord(o, 1, BaseUser, ps)) :
     o \in OrderIds, ps \in SeqsUpTo({BaseProduct(i) : i \in ProductIds}, MaxProducts)}

\* lines that vary the user object
UserLines ==
  {JsonLine(OrderRecord(o, t, UserObj(i, n, c), <<>>)) :
     o \in OrderIds, t \in Epochs, i \in UserIds, n \in UserNames, c \in Cities}

\* lines that vary the order's owner and creation time
OrderLines ==
  {JsonLine(OrderRecord(o, c, UserObj(i, "Ann", "Brno"), ps)) :
     o \in OrderIds, c \in Epochs, i \in UserIds,
     ps \in {<<>>, <<BaseProduct(2)>>, <<BaseProduct(1), BaseProduct(1)>>,
             <<BaseProduct(1), BaseProduct(2)>>}}

\* lines that vary the name and price given for a product id
ProductVariants ==
  {ProductObj(i, "Pen", 15) : i \in ProductIds} \cup {ProductObj(i, "Ink", 40) : i \in ProductIds}

ProductLines ==
  {JsonLine(OrderRecord(1, 1, BaseUser, ps)) : ps \in SeqsUpTo(ProductVariants, 2)}

\* well-formed JSON lines that lack one required field, and the malformed line
PartialLines ==
  {JsonLine(Without(BaseRecord, f)) : f \in {"id", "created", "products", "user"}}
  \cup {JsonLine([BaseRecord EXCEPT !.user = Without(BaseUser, f)]) : f \in {"id", "name", "city"}}
  \cup {JsonLine([BaseRecord EXCEPT !.products[k] = Without(BaseProduct(k), f)]) :
          k \in 1..2, f \in {"id", "name", "price"}}

FaultyLines ==
  PartialLines \cup {Malformed}
  \cup {JsonLine(BaseRecord), JsonLine(OrderRecord(2, 2, UserObj(2, "Bob", "Praha"), <<BaseProduct(2)>>))}

Families == {AssocLines, UserLines, OrderLines, ProductLines}

\* a file is drawn from one family; the files with faulty lines are one line longer
Files == UNION {SeqsUpTo(F, MaxLines) : F \in Families} \cup SeqsUpTo(FaultyLines, MaxLines + 1)

(* ------------------------------- state --------------------------------- *)
VARIABLES
  file,           \* the lines of the data file
  pc,             \* position of the loader
  exc,            \* the exception that ended the load, or "none"
  loads,          \* calls of load_data_from_file so far
  cursor,         \* lines taken from the file by the loop of line 114
  num_lines,      \* the line counter
  users,          \* committed rows of table users
  orders,         \* committed rows of table orders
  products,       \* committed rows of table products
  order_product,  \* committed rows of table order_product
  product_ids,    \* local product_ids
  quantity_map,   \* local quantity_map
  product_data,   \* local product_data (the loop variable of lines 148-156)
  idx,            \* position of the loop of lines 159-162
  stderr,         \* what was written to the error stream
  stdout,         \* the totals written to the output stream
  rejects,        \* writes rejected by the store so far
  assoc0,         \* order_product as it was when the current line was read
  rejects0,       \* rejects as it was when the current line was read
  snap,           \* the store as it was when the current load began
  reply           \* what the last reporting call returned

store == <<users, orders, products, order_product>>

locals == <<product_ids, quantity_map, product_data, idx>>

ghosts == <<assoc0, rejects0>>

vars == <<file, pc, exc, loads, cursor, num_lines, users, orders, products, order_product,
          product_ids, quantity_map, product_data, idx, stderr, stdout, rejects,
          assoc0, rejects0, snap, reply>>

NoReply == [kind |-> "none"]

InitWith(files) ==
  /\ file \in files
  /\ pc = "idle"
  /\ exc = "none"
  /\ loads = 0
  /\ cursor = 0
  /\ num_lines = 0
  /\ users = {}
  /\ orders = {}
  /\ products = {}
  /\ order_product = {}
  /\ product_ids = <<>>
  /\ quantity_map = <<>>
  /\ product_data = <<>>
  /\ idx = 1
  /\ stderr = <<>>
  /\ stdout = <<>>
  /\ rejects = 0
  /\ assoc0 = {}
  /\ rejects0 = 0
  /\ snap = <<{}, {}, {}, {}>>
  /\ reply = NoReply

Init == InitWith(Files)

(* ------------------------------ the store ------------------------------ *)
\* datetime.fromtimestamp: epoch seconds to a DateTime value
FromTimestamp(ts) == [secs |-> ts]

\* DateTime.strftime(DATE_TIME_FORMAT)
DATE_TIME_FORMAT == "%Y-%m-%d %H:%M:%S"

Strftime(dt) == <<DATE_TIME_FORMAT, dt.secs>>

\* the cast the store applies to a time literal in that format
ParseDateTime(str) == [secs |-> str[2]]

User(i, n, c) == [id |-> i, name |-> n, city |-> c]

Product(i, n, p) == [id |-> i, name |-> n, price |-> p]

Order(i, u, c) == [id |-> i, user_id |-> u, created |-> c]

OrderProductRow(o, p, q) == [order_id |-> o, product_id |-> p, quantity |-> q]

\* AddToSession that leaves the row of an existing id as it is
AddToSessionKeepExisting(table, object) ==
  IF \E r \in table : r.id = object.id THEN table ELSE table \cup {object}

\* __add_to_session: merge an object whose id has a row, add it otherwise;
\* the value is the table once the session is flushed
AddToSession(table, object) ==
  IF \E r \in table : r.id = object.id
    THEN {r \in table : r.id # object.id} \cup {object}
    ELSE table \cup {object}

\* the store's answer to a write: the environment may reject it
RejectChoices == IF rejects < MaxRejects THEN BOOLEAN ELSE {FALSE}

(* ------------------------------ the loader ----------------------------- *)
data == file[cursor].data

Repeat(msg, n) == [k \in 1..n |-> msg]

Missing(obj, fields) == Cardinality(fields \ DOMAIN obj)

\* an exception nobody catches ends load_data_from_file (and the process)
Raise(e, err) ==
  /\ pc' = "crashed"
  /\ exc' = e
  /\ stderr' = err
  /\ UNCHANGED <<file, loads, cursor, num_lines, store, locals, stdout, rejects, ghosts, snap, reply>>

\* lines 110-113
LoadDataFromFile ==
  /\ pc \in {"idle", "done"}
  /\ loads < MaxLoads
  /\ pc' = "read"
  /\ loads' = loads + 1
  /\ cursor' = 0
  /\ num_lines' = 0
  /\ snap' = store
  /\ reply' = NoReply
  /\ UNCHANGED <<file, exc, store, locals, stderr, stdout, rejects, ghosts>>

\* ReadLine with the malformed line skipped instead of ending the loop
ReadLineContinue ==
  /\ pc = "read"
  /\ IF cursor = Len(file)
       THEN /\ pc' = "done"
            /\ stdout' = Append(stdout, num_lines)
            /\ UNCHANGED <<cursor, stderr, ghosts>>
       ELSE /\ cursor' = cursor + 1
            /\ IF ~file[cursor + 1].json
                 THEN /\ pc' = "read"
                      /\ stderr' = Append(stderr, "format")
                      /\ UNCHANGED <<stdout, ghosts>>
                 ELSE /\ pc' = "record"
                      /\ assoc0' = order_product
                      /\ rejects0' = rejects
                      /\ UNCHANGED <<stderr, stdout>>
  /\ UNCHANGED <<file, exc, loads, num_lines, store, locals, rejects, snap, reply>>

\* lines 114-120 and 181
ReadLine ==
  /\ pc = "read"
  /\ IF cursor = Len(file)
       THEN /\ pc' = "done"
            /\ stdout' = Append(stdout, num_lines)
            /\ UNCHANGED <<cursor, stderr, ghosts>>
       ELSE /\ cursor' = cursor + 1
            /\ IF ~file[cursor + 1].json
                 THEN /\ pc' = "done"
                      /\ stderr' = Append(stderr, "format")
                      /\ stdout' = Append(stdout, num_lines)
                      /\ UNCHANGED ghosts
                 ELSE /\ pc' = "record"
                      /\ assoc0' = order_product
                      /\ rejects0' = rejects
                      /\ UNCHANGED <<stderr, stdout>>
  /\ UNCHANGED <<file, exc, loads, num_lines, store, locals, rejects, snap, reply>>

\* lines 122-144: validate, build the User and the Order, commit both
ProcessUserOrder ==
  /\ pc = "record"
  /\ LET err1 == stderr \o Repeat("order_missing", Missing(data, {"id", "created", "products", "user"}))
     IN IF ~({"id", "user"} \subseteq DOMAIN data)
          THEN Raise("KeyError", err1)                                  \* lines 128, 129
          ELSE
            LET order_id == data.id
                user_data == data.user
                err2 == err1 \o Repeat("user_missing", Missing(user_data, {"id", "name", "city"}))
            IN IF ~({"id", "name", "city"} \subseteq DOMAIN user_data)
                 THEN Raise("KeyError", err2)                           \* line 138
                 ELSE IF "created" \notin DOMAIN data
                   THEN Raise("KeyError", err2)                         \* line 142
                   ELSE
                     LET user == User(user_data.id, user_data.name, user_data.city)
                         order == Order(order_id, user.id, FromTimestamp(data.created))
                     IN \E flush_rejected \in RejectChoices, commit_rejected \in RejectChoices :
                          IF flush_rejected
                            \* line 143: the query of __add_to_session autoflushes the
                            \* pending User outside any try block
                            THEN /\ pc' = "crashed"
                                 /\ exc' = "SQLAlchemyError"
                                 /\ rejects' = rejects + 1
                                 /\ stderr' = err2
                                 /\ UNCHANGED <<file, loads, cursor, num_lines, store, locals, stdout,
                                                ghosts, snap, reply>>
                            ELSE IF commit_rejected
                              \* line 144: __try_commit rolls the transaction back
                              THEN /\ pc' = "collect"
                                   /\ rejects' = rejects + 1
                                   /\ stderr' = Append(err2, "db")
                                   /\ UNCHANGED <<file, exc, loads, cursor, num_lines, store, locals,
                                                  stdout, ghosts, snap, reply>>
                              ELSE /\ pc' = "collect"
                                   /\ users' = AddToSession(users, user)
                                   /\ orders' = AddToSession(orders, order)
                                   /\ stderr' = err2
                                   /\ UNCHANGED <<file, exc, loads, cursor, num_lines, products,
                                                  order_product, locals, stdout, rejects,
                                                  ghosts, snap, reply>>

\* QuantityMap with the count overwritten instead of accumulated
QuantityMapNoAccumulate(ps, n) == [k \in {ps[i].id : i \in 1..n} |-> 1]

\* the counting of lines 147-156 over the first n products
RECURSIVE QuantityMap(_, _)
QuantityMap(ps, n) ==
  IF n = 0 THEN <<>>
  ELSE LET m == QuantityMap(ps, n - 1)
           product_id == ps[n].id
       IN [k \in (DOMAIN m) \cup {product_id} |->
             IF k = product_id
               THEN (IF product_id \in DOMAIN m THEN m[product_id] ELSE 0) + 1
               ELSE m[k]]

\* the reports of lines 150-153 for the first n products
RECURSIVE ProductReports(_, _)
ProductReports(ps, n) ==
  IF n = 0 THEN <<>>
  ELSE ProductReports(ps, n - 1) \o Repeat("product_missing", Missing(ps[n], {"id", "name", "price"}))

\* lines 146-156: collect the product ids and count them
CollectProducts ==
  /\ pc = "collect"
  /\ IF "products" \notin DOMAIN data
       THEN Raise("KeyError", stderr)                                   \* line 148
       ELSE
         LET ps == data.products
             noid == {k \in 1..Len(ps) : "id" \notin DOMAIN ps[k]}
         IN IF noid # {}
              THEN LET k == CHOOSE j \in noid : \A i \in noid : j <= i
                   IN Raise("KeyError", stderr \o ProductReports(ps, k))  \* line 154
              ELSE /\ pc' = "products"
                   /\ product_ids' = [k \in 1..Len(ps) |-> ps[k].id]
                   /\ quantity_map' = QuantityMap(ps, Len(ps))
                   /\ product_data' = IF ps = <<>> THEN product_data ELSE ps[Len(ps)]
                   /\ idx' = 1
                   /\ stderr' = stderr \o ProductReports(ps, Len(ps))
                   /\ UNCHANGED <<file, exc, loads, cursor, num_lines, store, stdout, rejects,
                                  ghosts, snap, reply>>

\* the Product that line 160 builds for a product id
BuiltProduct(product_id) == Product(product_id, product_data.name, product_data.price)

\* lines 159-162: one turn of the loop, a Product upserted and committed
UpsertProduct ==
  /\ pc = "products"
  /\ idx <= Len(product_ids)
  /\ IF ~({"name", "price"} \subseteq DOMAIN product_data)
       THEN Raise("KeyError", stderr)                                   \* line 160
       ELSE \E rejected \in RejectChoices :
              /\ idx' = idx + 1
              /\ IF rejected
                   THEN /\ rejects' = rejects + 1
                        /\ stderr' = Append(stderr, "db")
                        /\ UNCHANGED products
                   ELSE /\ products' = AddToSession(products, BuiltProduct(product_ids[idx]))
                        /\ UNCHANGED <<rejects, stderr>>
              /\ UNCHANGED <<file, pc, exc, loads, cursor, num_lines, users, orders, order_product,
                             product_ids, quantity_map, product_data, stdout, ghosts, snap, reply>>

\* StagedRows without the look-up of line 167
StagedRowsUnchecked(order_id) ==
  [k \in 1..Len(product_ids) |->
     OrderProductRow(order_id, product_ids[k], quantity_map[product_ids[k]])]

\* lines 165-168: a row for every listed product id that has none for this order
StagedRows(order_id) ==
  LET absent(product_id) ==
        ~\E r \in order_product : r.order_id = order_id /\ r.product_id = product_id
      ids == SelectSeq(product_ids, absent)
  IN [k \in 1..Len(ids) |-> OrderProductRow(order_id, ids[k], quantity_map[ids[k]])]

\* Deduplicate that adds the quantity of a repeated item to the item kept
RECURSIVE DeduplicateSummed(_, _)
DeduplicateSummed(list_items, n) ==
  IF n = 0 THEN <<>>
  ELSE LET merged == DeduplicateSummed(list_items, n - 1)
           item == list_items[n]
           same(j) == /\ merged[j].order_id = item.order_id
                      /\ merged[j].product_id = item.product_id
       IN IF \E j \in 1..Len(merged) : same(j)
            THEN [j \in 1..Len(merged) |->
                    IF same(j)
                      THEN [merged[j] EXCEPT !.quantity = @ + item.quantity]
                      ELSE merged[j]]
            ELSE Append(merged, item)

\* __deduplicate_list_of_order_product_items over the first n items
RECURSIVE Deduplicate(_, _)
Deduplicate(list_items, n) ==
  IF n = 0 THEN <<>>
  ELSE LET deduplicated_list == Deduplicate(list_items, n - 1)
           item == list_items[n]
       IN IF \E j \in 1..Len(deduplicated_list) :
                /\ deduplicated_list[j].order_id = item.order_id
                /\ deduplicated_list[j].product_id = item.product_id
            THEN deduplicated_list
            ELSE Append(deduplicated_list, item)

\* lines 165-171: the staged rows, deduplicated
OrderProductData(order_id) ==
  LET staged == StagedRows(order_id) IN Deduplicate(staged, Len(staged))

\* InsertValues that first deletes the rows of the orders it writes
InsertValuesReplacing(table, rows) ==
  {r \in table : \A k \in 1..Len(rows) : r.order_id # rows[k].order_id}
    \cup {rows[k] : k \in 1..Len(rows)}

\* order_product.insert().values(rows), line 174
InsertValues(table, rows) == table \cup {rows[k] : k \in 1..Len(rows)}

\* InsertAccepted of a table order_product declared without its foreign keys
InsertAcceptedNoForeignKeys(rows) ==
  /\ \A i, j \in 1..Len(rows) :
        (rows[i].order_id = rows[j].order_id /\ rows[i].product_id = rows[j].product_id) => i = j
  /\ \A i \in 1..Len(rows) :
        ~\E r \in order_product :
           r.order_id = rows[i].order_id /\ r.product_id = rows[i].product_id

\* the constraints table order_product declares: its composite primary key
\* and its two foreign keys
InsertAccepted(rows) ==
  /\ \A i, j \in 1..Len(rows) :
        (rows[i].order_id = rows[j].order_id /\ rows[i].product_id = rows[j].product_id) => i = j
  /\ \A i \in 1..Len(rows) :
        /\ ~\E r \in order_product :
              r.order_id = rows[i].order_id /\ r.product_id = rows[i].product_id
        /\ \E o \in orders : o.id = rows[i].order_id
        /\ \E p \in products : p.id = rows[i].product_id

\* lines 164-179: stage, deduplicate, insert and commit the association rows,
\* then count the line
InsertAssociations ==
  /\ pc = "products"
  /\ idx > Len(product_ids)
  /\ LET order_product_data == OrderProductData(data.id)
         advance == /\ pc' = "read"
                    /\ num_lines' = num_lines + 1
                    /\ UNCHANGED <<file, exc, loads, cursor, users, orders, products, locals,
                                   stdout, ghosts, snap, reply>>
     IN IF order_product_data = <<>>
          THEN advance /\ UNCHANGED <<order_product, stderr, rejects>>
          ELSE IF ~InsertAccepted(order_product_data)
            \* line 174: the INSERT raises outside any try block
            THEN /\ pc' = "crashed"
                 /\ exc' = "SQLAlchemyError"
                 /\ UNCHANGED <<file, loads, cursor, num_lines, store, locals, stderr, stdout,
                                rejects, ghosts, snap, reply>>
            ELSE \E insert_rejected \in RejectChoices, commit_rejected \in RejectChoices :
                   IF insert_rejected
                     THEN /\ pc' = "crashed"
                          /\ exc' = "SQLAlchemyError"
                          /\ rejects' = rejects + 1
                          /\ UNCHANGED <<file, loads, cursor, num_lines, store, locals, stderr,
                                         stdout, ghosts, snap, reply>>
                     ELSE IF commit_rejected
                       \* line 177: __try_commit rolls the INSERT back
                       THEN /\ advance
                            /\ rejects' = rejects + 1
                            /\ stderr' = Append(stderr, "db")
                            /\ UNCHANGED order_product
                       ELSE /\ advance
                            /\ order_product' = InsertValues(order_product, order_product_data)
                            /\ UNCHANGED <<stderr, rejects>>

(* ----------------------------- reporting ------------------------------- *)
TimeLiterals == {<<DATE_TIME_FORMAT, t>> : t \in 0..(MaxEpoch + 1)}

\* the sequences that list every element of S once
Listings(S) ==
  {q \in [1..Cardinality(S) -> S] : \A i, j \in 1..Cardinality(S) : q[i] = q[j] => i = j}

\* Between with the lower bound excluded
BetweenExclusive(created, start_time, end_time) ==
  ParseDateTime(start_time).secs < created.secs /\ created.secs <= ParseDateTime(end_time).secs

\* Order.created.between(start_time, end_time)
Between(created, start_time, end_time) ==
  ParseDateTime(start_time).secs <= created.secs /\ created.secs <= ParseDateTime(end_time).secs

\* the loop of lines 189-190 over the first n rows the store returned
RECURSIVE ExpandProductIds(_, _)
ExpandProductIds(order_products, n) ==
  IF n = 0 THEN <<>>
  ELSE ExpandProductIds(order_products, n - 1)
         \o Repeat(order_products[n].product_id, order_products[n].quantity)

\* __get_product_ids_for_order: the store returns the rows in an order of its choosing
GetProductIdsForOrder(order) ==
  {ExpandProductIds(q, Len(q)) : q \in Listings({r \in order_product : r.order_id = order.id})}

\* get_orders_in_time_range
GetOrdersInTimeRange ==
  /\ pc = "done"
  /\ \E start_time \in TimeLiterals, end_time \in TimeLiterals :
       LET selected == {o \in orders : Between(o.created, start_time, end_time)}
           sorted == {q \in Listings(selected) :
                        \A i, j \in 1..Len(q) : i < j => q[i].created.secs <= q[j].created.secs}
       IN \E q \in sorted :
            \E ids \in [1..Len(q) -> UNION {GetProductIdsForOrder(o) : o \in selected}] :
              /\ \A k \in 1..Len(q) : ids[k] \in GetProductIdsForOrder(q[k])
              /\ reply' = [kind |-> "orders", start |-> start_time, end |-> end_time,
                           rows |-> [k \in 1..Len(q) |->
                                       [id |-> q[k].id, user_id |-> q[k].user_id,
                                        product_ids |-> ids[k],
                                        created |-> Strftime(q[k].created)]]]
  /\ UNCHANGED <<file, pc, exc, loads, cursor, num_lines, store, locals, stderr, stdout, rejects,
                 ghosts, snap>>

\* func.sum over the values f gives to the elements of S
RECURSIVE FuncSum(_, _)
FuncSum(S, f) ==
  IF S = {} THEN 0
  ELSE LET x == CHOOSE y \in S : TRUE IN f[x] + FuncSum(S \ {x}, f)

\* SubqueryOrder that counts the association rows instead of adding their quantity
SubqueryOrderCountingRows ==
  {[order_id |-> o.id,
    product_quantity |-> Cardinality({r \in order_product : r.order_id = o.id})] :
     o \in {x \in orders : \E r \in order_product : r.order_id = x.id}}

\* lines 217-222: the quantity of every order that has association rows
SubqueryOrder ==
  {[order_id |-> o.id,
    product_quantity |->
      LET joined == {r \in order_product : r.order_id = o.id}
      IN FuncSum(joined, [r \in joined |-> r.quantity])] :
     o \in {x \in orders : \E r \in order_product : r.order_id = x.id}}

\* lines 224-228: the purchase count of every user id that owns such an order
PurchaseCounts ==
  {[user_id |-> u,
    purchase_count |->
      LET joined == {q \in SubqueryOrder : \E o \in orders : o.id = q.order_id /\ o.user_id = u}
      IN FuncSum(joined, [q \in joined |-> q.product_quantity])] :
     u \in {o.user_id : o \in {x \in orders : \E q \in SubqueryOrder : q.order_id = x.id}}}

\* the listings of S in descending order of purchase_count
Descending(S) ==
  {q \in Listings(S) :
     \A i, j \in 1..Len(q) : i < j => q[i].purchase_count >= q[j].purchase_count}

\* .limit(num_users), line 229
Limit(q, num_users) == SubSeq(q, 1, IF num_users < Len(q) THEN num_users ELSE Len(q))

NumUsersAsked == 0..MaxTop

\* get_top_users_by_product_purchase_count
GetTopUsersByProductPurchaseCount ==
  /\ pc = "done"
  /\ \E num_users \in NumUsersAsked :
       \E ranked \in Descending(PurchaseCounts) :
         LET subquery_aggregated == Limit(ranked, num_users)
             matches == {m \in users \X (1..Len(subquery_aggregated)) :
                           subquery_aggregated[m[2]].user_id = m[1].id}
             joined == {[user_id |-> m[1].id, user_name |-> m[1].name,
                         user_city |-> m[1].city,
                         purchase_count |-> subquery_aggregated[m[2]].purchase_count] :
                          m \in matches}
         IN \E top_users \in Descending(joined) :
              reply' = [kind |-> "top", num_users |-> num_users, rows |-> top_users]
  /\ UNCHANGED <<file, pc, exc, loads, cursor, num_lines, store, locals, stderr, stdout, rejects,
                 ghosts, snap>>

(* --------------------------- specification ----------------------------- *)
\* the loader
Next ==
  \/ LoadDataFromFile
  \/ ReadLine
  \/ ProcessUserOrder
  \/ CollectProducts
  \/ UpsertProduct
  \/ InsertAssociations

Spec == Init /\ [][Next]_vars

\* the loader and the reporting calls, over the files that vary orders
InitReport == InitWith(SeqsUpTo(OrderLines, MaxLines))

NextReport ==
  \/ LoadDataFromFile
  \/ ReadLine
  \/ ProcessUserOrder
  \/ CollectProducts
  \/ UpsertProduct
  \/ InsertAssociations
  \/ GetOrdersInTimeRange
  \/ GetTopUsersByProductPurchaseCount

SpecReport == InitReport /\ [][NextReport]_vars

(* ------------------------- notions of the claims ----------------------- *)
OrderFields == {"id", "created", "products", "user"}

ValidRecord(d) ==
  /\ DOMAIN d = OrderFields
  /\ DOMAIN d.user = {"id", "name", "city"}
  /\ \A k \in 1..Len(d.products) : DOMAIN d.products[k] = {"id", "name", "price"}

ValidLine(l) == l.json /\ ValidRecord(l.data)

AllValid == \A k \in 1..Len(file) : ValidLine(file[k])

\* how often product id p occurs in a products array
Occurrences(p, ps) == Cardinality({k \in 1..Len(ps) : ps[k].id = p})

\* the position of the last occurrence of the id of ps[k] in ps
LastOccurrence(ps, k) ==
  CHOOSE j \in k..Len(ps) :
    ps[j].id = ps[k].id /\ \A i \in (j + 1)..Len(ps) : ps[i].id # ps[k].id

UniqueIds(table) == \A r1, r2 \in table : r1.id = r2.id => r1 = r2

RowsOf(o, p) == {r \in order_product : r.order_id = o /\ r.product_id = p}

\* the record of the line that was just counted
counted == file[num_lines].data

NoRejectInLine == rejects = rejects0

(* C1: a second load of a file of valid records, with no write rejected,    *)
(* ends normally and leaves the store exactly as the first load left it,    *)
(* with one row per id in users, products and orders.                       *)
C1_SecondLoadSameStore ==
  (AllValid /\ rejects = 0 /\ loads >= 2 /\ pc \in {"done", "crashed"}) =>
     /\ pc = "done"
     /\ store = snap
     /\ UniqueIds(users) /\ UniqueIds(products) /\ UniqueIds(orders)

C1_Witness ==
  /\ AllValid /\ rejects = 0 /\ loads = 2 /\ pc = "done"
  /\ Len(file) = 2
  /\ Cardinality(order_product) >= 2
  /\ \E r \in order_product : r.quantity >= 2
  /\ store = snap

(* C2: after a valid record is processed with no write rejected, into a     *)
(* store that had no association row of its order, every product id that    *)
(* occurs k >= 1 times in its products array has exactly one order_product  *)
(* row for that order, of quantity k.                                       *)
C2_QuantityIsOccurrences ==
  (pc = "read" /\ num_lines >= 1 /\ NoRejectInLine /\ ValidRecord(counted)
     /\ ~\E r \in assoc0 : r.order_id = counted.id) =>
       \A k \in 1..Len(counted.products) :
         LET p == counted.products[k].id
         IN /\ Cardinality(RowsOf(counted.id, p)) = 1
            /\ \A r \in RowsOf(counted.id, p) :
                  r.quantity = Occurrences(p, counted.products)

C2_Witness ==
  /\ pc = "read" /\ num_lines >= 1 /\ NoRejectInLine /\ ValidRecord(counted)
  /\ ~\E r \in assoc0 : r.order_id = counted.id
  /\ Len(counted.products) = 3
  /\ counted.products[1].id = counted.products[3].id
  /\ counted.products[1].id # counted.products[2].id
  /\ \E r \in RowsOf(counted.id, counted.products[1].id) : r.quantity = 2

(* C3: after a valid record is processed with no write rejected, the        *)
(* products row of every id it lists holds the name and price the record    *)
(* gives for that id (those of the last occurrence of the id).              *)
C3_ProductHoldsOwnNameAndPrice ==
  (pc = "read" /\ num_lines >= 1 /\ NoRejectInLine /\ ValidRecord(counted)) =>
     \A k \in 1..Len(counted.products) :
       LET given == counted.products[LastOccurrence(counted.products, k)]
       IN \E r \in products :
            r.id = given.id /\ r.name = given.name /\ r.price = given.price

\* the lines a load that ended normally has counted
CleanPrefix ==
  LET bad == {k \in 1..Len(file) : ~file[k].json}
  IN IF bad = {} THEN file
     ELSE SubSeq(file, 1, (CHOOSE m \in bad : \A k \in bad : m <= k) - 1)

\* the lines counted so far, earlier loads included
Loaded == (IF loads >= 2 THEN CleanPrefix ELSE <<>>) \o SubSeq(file, 1, num_lines)

\* the lines whose User and Order have been sent to the store so far
Seen == Loaded \o (IF pc \in {"collect", "products"} THEN <<file[cursor]>> ELSE <<>>)

UniqueKeys ==
  \A r1, r2 \in order_product :
    (r1.order_id = r2.order_id /\ r1.product_id = r2.product_id) => r1 = r2

\* the positions in Loaded of the records of order o that list product p
Listing(o, p) ==
  {k \in 1..Len(Loaded) :
     Loaded[k].data.id = o /\ Occurrences(p, Loaded[k].data.products) >= 1}

(* C4 as stated: with no write rejected, there is one order_product row per  *)
(* (order_id, product_id) and the quantity of every row is the number of     *)
(* occurrences of the product id in the latest record loaded with that       *)
(* order id.                                                                 *)
C4_QuantityFromLatestRecord ==
  /\ UniqueKeys
  /\ rejects = 0 =>
       \A r \in order_product :
         LET same == {k \in 1..Len(Loaded) : Loaded[k].data.id = r.order_id}
             latest == CHOOSE k \in same : \A j \in same : j <= k
         IN r.quantity = Occurrences(r.product_id, Loaded[latest].data.products)

(* C4 amended: there is one order_product row per (order_id, product_id);    *)
(* the quantity of every row is the number of occurrences of the product id  *)
(* in a loaded record of that order id, and with no write rejected it is     *)
(* the first loaded record of that order id that lists the product.          *)
C4_QuantityFromInsertingRecord ==
  /\ UniqueKeys
  /\ \A r \in order_product :
       \E k \in Listing(r.order_id, r.product_id) :
         r.quantity = Occurrences(r.product_id, Loaded[k].data.products)
  /\ rejects = 0 =>
       \A r \in order_product :
         LET first == CHOOSE k \in Listing(r.order_id, r.product_id) :
                        \A j \in Listing(r.order_id, r.product_id) : k <= j
         IN r.quantity = Occurrences(r.product_id, Loaded[first].data.products)

C4_Witness ==
  /\ rejects = 0 /\ loads = 1 /\ num_lines = 2
  /\ file[1].data.id = file[2].data.id
  /\ \E r \in order_product :
       /\ r.order_id = file[1].data.id
       /\ r.quantity = Occurrences(r.product_id, file[1].data.products)
       /\ r.quantity # Occurrences(r.product_id, file[2].data.products)
       /\ Occurrences(r.product_id, file[2].data.products) >= 1

\* the position of the first line that is not valid JSON (0 when there is none)
FirstMalformed ==
  LET bad == {k \in 1..Len(file) : ~file[k].json}
  IN IF bad = {} THEN 0 ELSE CHOOSE m \in bad : \A k \in bad : m <= k

C5_Halted ==
  FirstMalformed # 0 =>
    /\ cursor <= FirstMalformed
    /\ num_lines <= FirstMalformed - 1
    /\ pc \in {"record", "collect", "products"} => cursor < FirstMalformed
    /\ pc = "done" =>
         /\ cursor = FirstMalformed
         /\ num_lines = FirstMalformed - 1
         /\ stdout[Len(stdout)] = FirstMalformed - 1

(* C5: no line from the first malformed line on is processed, the step that  *)
(* meets the malformed line leaves the store as it is, and the total         *)
(* reported at the end is the number of lines before the malformed line.     *)
C5_MalformedLineHalts ==
  /\ []C5_Halted
  /\ [][(pc = "read" /\ pc' = "done") => store' = store]_vars

C5_Witness ==
  /\ Len(file) = 3 /\ FirstMalformed = 2 /\ ValidLine(file[1]) /\ ValidLine(file[3])
  /\ file[1].data.id # file[3].data.id
  /\ pc = "done" /\ num_lines = 1
  /\ \E o \in orders : o.id = file[1].data.id
  /\ ~\E o \in orders : o.id = file[3].data.id

(* C6: a well-formed line that lacks a required field does not end the load: *)
(* no look-up of the missing field terminates load_data_from_file.           *)
C6_MissingFieldNonFatal == ~(pc = "crashed" /\ exc = "KeyError")

(* C7: a write the store rejects does not end the load: no database error    *)
(* terminates load_data_from_file.                                           *)
C7_RejectedWriteNonFatal == ~(pc = "crashed" /\ exc = "SQLAlchemyError")

\* the positions in Seen of the last record of each user id and of each order id
LastOfUser(u) ==
  {k \in 1..Len(Seen) :
     Seen[k].data.user.id = u /\ \A j \in (k + 1)..Len(Seen) : Seen[j].data.user.id # u}

LastOfOrder(o) ==
  {k \in 1..Len(Seen) : Seen[k].data.id = o /\ \A j \in (k + 1)..Len(Seen) : Seen[j].data.id # o}

(* C8: users and orders hold one row per id, and after valid records with   *)
(* no write rejected the users row of an id holds the name and city of the  *)
(* last record that references the id, and the orders row of an id holds    *)
(* the user id and the created value of the last record of that order id.   *)
C8_LastWriteWins ==
  /\ UniqueIds(users)
  /\ UniqueIds(orders)
  /\ (rejects = 0 /\ pc # "crashed" /\ \A k \in 1..Len(Seen) : ValidLine(Seen[k])) =>
       /\ \A r \in users :
            \E k \in LastOfUser(r.id) :
              r.name = Seen[k].data.user.name /\ r.city = Seen[k].data.user.city
       /\ \A r \in orders :
            \E k \in LastOfOrder(r.id) :
              /\ r.user_id = Seen[k].data.user.id
              /\ r.created = FromTimestamp(Seen[k].data.created)
       /\ \A k \in 1..Len(Seen) :
            /\ \E r \in users : r.id = Seen[k].data.user.id
            /\ \E r \in orders : r.id = Seen[k].data.id

C8_Witness ==
  /\ rejects = 0 /\ pc = "done" /\ loads = 1 /\ AllValid /\ Len(file) = 2
  /\ file[1].data.id = file[2].data.id
  /\ file[1].data.created # file[2].data.created
  /\ file[1].data.user.id = file[2].data.user.id
  /\ file[1].data.user.name # file[2].data.user.name
  /\ file[1].data.user.city # file[2].data.user.city
  /\ users = {User(file[2].data.user.id, file[2].data.user.name, file[2].data.user.city)}
  /\ orders = {Order(file[2].data.id, file[2].data.user.id, FromTimestamp(file[2].data.created))}

(* C9: every order_product row that existed when a line was read exists     *)
(* unchanged while and after the line is processed, and every row added     *)
(* since has a key that had no row.                                         *)
C9_ExistingRowsUntouched ==
  /\ assoc0 \subseteq order_product
  /\ \A r \in order_product \ assoc0 :
       ~\E a \in assoc0 : a.order_id = r.order_id /\ a.product_id = r.product_id

C9_Witness ==
  /\ pc = "read" /\ num_lines = 2 /\ loads = 1
  /\ file[1].data.id = file[2].data.id
  /\ \E r \in assoc0 :
       /\ r.order_id = file[2].data.id
       /\ Occurrences(r.product_id, file[2].data.products) >= 1
       /\ Occurrences(r.product_id, file[2].data.products) # r.quantity
       /\ r \in order_product
  /\ order_product # assoc0

\* how often product id p occurs in a list of product ids
Times(p, ids) == Cardinality({k \in 1..Len(ids) : ids[k] = p})

RECURSIVE SumQuantity(_)
SumQuantity(rows) ==
  IF rows = {} THEN 0
  ELSE LET r == CHOOSE x \in rows : TRUE IN r.quantity + SumQuantity(rows \ {r})

(* C10: get_orders_in_time_range(start, end) returns exactly the orders      *)
(* whose created is in [start, end], each once, in ascending order of        *)
(* created, each with its user id and with every product id of its           *)
(* order_product rows repeated quantity times.                               *)
C10_OrdersInRange ==
  reply.kind = "orders" =>
    LET rows == reply.rows
        inside == {o \in orders : reply.start[2] <= o.created.secs /\ o.created.secs <= reply.end[2]}
    IN /\ {rows[k].id : k \in 1..Len(rows)} = {o.id : o \in inside}
       /\ Len(rows) = Cardinality(inside)
       /\ \A i, j \in 1..Len(rows) : i < j => rows[i].created[2] <= rows[j].created[2]
       /\ \A k \in 1..Len(rows) :
            /\ \E o \in inside :
                 o.id = rows[k].id /\ o.user_id = rows[k].user_id
                   /\ rows[k].created = <<DATE_TIME_FORMAT, o.created.secs>>
            /\ \A p \in ProductIds :
                 Times(p, rows[k].product_ids) = SumQuantity(RowsOf(rows[k].id, p))
            /\ Len(rows[k].product_ids) =
                 SumQuantity({r \in order_product : r.order_id = rows[k].id})

C10_Witness ==
  /\ reply.kind = "orders"
  /\ Len(reply.rows) = 2
  /\ reply.rows[1].created = reply.start
  /\ reply.rows[2].created = reply.end
  /\ reply.start # reply.end
  /\ Len(reply.rows[1].product_ids) = 2
  /\ \E r \in order_product : r.quantity = 2 /\ r.order_id = reply.rows[1].id

\* the quantity user id u bought: the sum over the association rows of its orders
Purchased(u) ==
  SumQuantity({r \in order_product :
                 \E o \in orders : o.id = r.order_id /\ o.user_id = u})

(* C11: get_top_users_by_product_purchase_count(n) returns at most n         *)
(* entries in descending order of purchase_count, the purchase_count of an   *)
(* entry is the sum of quantity over the association rows of all orders of   *)
(* its user, and no user left out has a greater sum than a user returned.    *)
C11_TopUsers ==
  reply.kind = "top" =>
    LET rows == reply.rows
        returned == {rows[k].user_id : k \in 1..Len(rows)}
    IN /\ Len(rows) <= reply.num_users
       /\ \A i, j \in 1..Len(rows) : i < j => rows[i].purchase_count >= rows[j].purchase_count
       /\ \A k \in 1..Len(rows) : rows[k].purchase_count = Purchased(rows[k].user_id)
       /\ \A u \in users :
            u.id \notin returned =>
              \A k \in 1..Len(rows) : Purchased(u.id) <= rows[k].purchase_count

C11_Witness ==
  /\ reply.kind = "top"
  /\ reply.num_users = 1
  /\ Len(reply.rows) = 1
  /\ Cardinality({r \in order_product : TRUE}) >= 3
  /\ \E u \in users :
       /\ u.id # reply.rows[1].user_id
       /\ Purchased(u.id) >= 1
       /\ Purchased(u.id) < reply.rows[1].purchase_count

(* C12: in every state of a load, rejected and rolled-back commits           *)
(* included, the user_id of every orders row is the id of a users row, and   *)
(* the order_id and product_id of every order_product row are the ids of an  *)
(* orders row and of a products row.                                         *)
C12_ReferentialIntegrity ==
  /\ \A o \in orders : \E u \in users : u.id = o.user_id
  /\ \A r \in order_product :
       /\ \E o \in orders : o.id = r.order_id
       /\ \E p \in products : p.id = r.product_id

C12_Witness ==
  /\ pc = "crashed" /\ exc = "SQLAlchemyError"
  /\ rejects = rejects0 + 1
  /\ stderr # <<>> /\ stderr[Len(stderr)] = "db"
  /\ order_product # {}
  /\ \E k \in 1..Len(product_ids) : ~\E p \in products : p.id = product_ids[k]

=============================================================================
